---- MODULE Spec2Model ----
(***************************************************************************)
(* Model of the Spark logging client (spark/client.py): the sampling gate, *)
(* the removal of ignored inputs, the derivation of the feedback id, the   *)
(* classification of a record into prediction / feedback events, and the   *)
(* tracer provider the events are handed to.                               *)
(*                                                                         *)
(* Python values.  A dict is a sequence of <<key, value>> pairs with       *)
(* distinct keys, in insertion order; a list is a sequence; an input value *)
(* is a Python str.  Record.feedback_id is None or a str and is written    *)
(* [t |-> type name, v |-> text].  sample_rate and random.random() are     *)
(* fixed-point numbers in units of 1/Scale, so Scale stands for 1.0.       *)
(* hashlib.md5(..).hexdigest() is written as the tagged pre-image, i.e. a  *)
(* digest without collisions.  A span carries the attributes the claims   *)
(* read (name, feedback_id, inputs, outputs, feedback_keys, ignore_inputs, *)
(* feedback_content) and the state of the provider it was handed to; the   *)
(* timestamp, version and application attributes are left out.  The        *)
(* variable records holds the Record objects of the caller, whose inputs   *)
(* log_record and log_records change in place; call and result record the  *)
(* last call and what it came to.                                          *)
(***************************************************************************)
EXTENDS Integers, Sequences, FiniteSets, TLC

VARIABLES provider, records, spans, call, result

vars == <<provider, records, spans, call, result>>

\* ------------------------------------------------------------------ bounds
Scale == 2
MaxRecords == 2

\* ----------------------------------------------------------- Python values
None == [t |-> "NoneType", v |-> ""]
Str(s) == [t |-> "str", v |-> s]

\* bool(x) for None and str
truthy(x) == x.t = "str" /\ x.v # ""

\* variant: the identifier is tested for truth, as in `if feedback_id:`
isinstance_str_truthy(x) == truthy(x)

\* isinstance(x, str)
isinstance_str(x) == x.t = "str"

Range(s) == {s[i] : i \in DOMAIN s}

\* dict(d).keys(), in insertion order
keys(d) == [i \in DOMAIN d |-> d[i][1]]

contains(d, k) == \E i \in DOMAIN d : d[i][1] = k

\* d[k], for a key that is present
getitem(d, k) == d[CHOOSE i \in DOMAIN d : d[i][1] = k][2]

\* d.get(k): the value, or None for a missing key
get(d, k) == IF contains(d, k) THEN Str(getitem(d, k)) ELSE None

IsNotKey(p, k) == p[1] # k

\* d.pop(k)
pop(d, k) == SelectSeq(d, LAMBDA p : IsNotKey(p, k))

\* d[k] = v : a new key goes last, a present key keeps its position
setitem(d, k, v) ==
    IF contains(d, k)
    THEN [i \in DOMAIN d |-> IF d[i][1] = k THEN <<k, v>> ELSE d[i]]
    ELSE Append(d, <<k, v>>)

\* ------------------------------------------------------ common/utils.py
check_sample_rate(sample_rate) == sample_rate <= Scale /\ sample_rate >= 0

is_empty(data) == Len(data) = 0

is_not_empty(data) == ~is_empty(data)

\* ------------------------------------------------------------ json, md5
\* order of str keys under sorted()
KeyRank(k) == CASE k = "a" -> 1 [] k = "b" -> 2 [] OTHER -> 3

RECURSIVE insert_sorted(_, _)
insert_sorted(d, p) ==
    IF d = <<>> THEN <<p>>
    ELSE IF KeyRank(p[1]) < KeyRank(Head(d)[1]) THEN <<p>> \o d
    ELSE <<Head(d)>> \o insert_sorted(Tail(d), p)

\* variant: json.dumps without sort_keys=True
sorted_items_unsorted(d) == d

RECURSIVE sorted_items(_)
sorted_items(d) ==
    IF d = <<>> THEN <<>>
    ELSE insert_sorted(sorted_items(SubSeq(d, 1, Len(d) - 1)), d[Len(d)])

json_item(p) == "\"" \o p[1] \o "\": \"" \o p[2] \o "\""

RECURSIVE json_items(_)
json_items(d) ==
    IF d = <<>> THEN ""
    ELSE IF Len(d) = 1 THEN json_item(d[1])
    ELSE json_item(d[1]) \o ", " \o json_items(Tail(d))

\* json.dumps(d, sort_keys=sort_keys)
json_dumps(d, sort_keys) ==
    "{" \o json_items(IF sort_keys THEN sorted_items(d) ELSE d) \o "}"

md5_hexdigest(s) == "md5:" \o s

\* ------------------------------------------------------------ client.py
Ok(x) == [exc |-> "", val |-> x]
Raise(e) == [exc |-> e, val |-> None]

RECURSIVE dict_comprehension(_, _, _)
dict_comprehension(inputs, ks, acc) ==
    IF ks = <<>> THEN acc
    ELSE dict_comprehension(inputs, Tail(ks),
                            setitem(acc, Head(ks), getitem(inputs, Head(ks))))

compute_feedback_id(inputs, feedback_keys) ==
    LET ks == IF Len(feedback_keys) > 0 THEN feedback_keys ELSE keys(inputs)
    IN  IF \E i \in DOMAIN ks : ~contains(inputs, ks[i])
        THEN Raise("KeyError")
        ELSE Ok(Str(md5_hexdigest(
                 json_dumps(dict_comprehension(inputs, ks, <<>>), TRUE))))

RECURSIVE remove_ignored_inputs(_, _)
remove_ignored_inputs(inputs, ignore_inputs) ==
    IF ignore_inputs = <<>> THEN inputs
    ELSE remove_ignored_inputs(
             IF truthy(get(inputs, Head(ignore_inputs)))
             THEN pop(inputs, Head(ignore_inputs))
             ELSE inputs,
             Tail(ignore_inputs))


\* an attribute a span kind does not set
Unset == "<unset>"

Span(name, feedback_id, inputs, outputs, feedback_keys, ignore_inputs, feedback_content) ==
    [name |-> name, feedback_id |-> feedback_id, inputs |-> inputs,
     outputs |-> outputs, feedback_keys |-> feedback_keys,
     ignore_inputs |-> ignore_inputs, feedback_content |-> feedback_content,
     channel |-> provider]

\* outcome of a helper that may raise: the exception ("" for none), the
\* spans it handed to the tracer and the inputs dict as it leaves it
Outcome(exc, emitted, inputs) ==
    [exc |-> exc, spans |-> emitted, inputs |-> inputs]

log_prediction_attribute(inputs, outputs, feedback_keys, ignore_inputs, feedback_id) ==
    IF is_empty(inputs)
    THEN Outcome("PredictionWithoutInputs", <<>>, inputs)
    ELSE IF is_empty(outputs)
    THEN Outcome("PredictionWithoutOutputs", <<>>, inputs)
    ELSE LET fk  == IF is_empty(feedback_keys) THEN keys(inputs)
                    ELSE feedback_keys
             inp == remove_ignored_inputs(inputs, ignore_inputs)
             fid == IF ~truthy(feedback_id) THEN compute_feedback_id(inp, fk)
                    ELSE Ok(feedback_id)
         IN  IF fid.exc # ""
             THEN Outcome(fid.exc, <<>>, inp)
             ELSE Outcome("",
                          <<Span("prediction", fid.val,
                                 json_dumps(inp, FALSE),
                                 json_dumps(outputs, FALSE),
                                 fk, ignore_inputs, Unset)>>,
                          inp)

log_feedback_attribute(feedback_id, feedbacks) ==
    <<Span("feedback", feedback_id, Unset, Unset, <<>>, <<>>,
           json_dumps(feedbacks, FALSE))>>

\* what handling one record comes to: the exception raised ("" for none),
\* the spans emitted, the record with its inputs as mutated in place, the
\* branch taken and the identifier the branch holds
Handled(exc, emitted, record, inputs, branch, feedback_id) ==
    [exc |-> exc, spans |-> emitted,
     record |-> [record EXCEPT !.inputs = inputs],
     branch |-> branch, feedback_id |-> feedback_id]

\* variant: a prediction is taken to exist when either side is present
pred_exists_either(input_exists, output_exists) ==
    input_exists \/ output_exists

\* pred_exists = input_exists and output_exists
pred_exists(input_exists, output_exists) == input_exists /\ output_exists

\* the per-record body of log_record, repeated verbatim in log_records
process_record(record) ==
    IF record.cls # "Record"
    THEN Handled("InvalidRecordType", <<>>, record, record.inputs, "", None)
    ELSE IF is_not_empty(record.feedback_keys) /\ truthy(record.feedback_id)
    THEN Handled("ConflictingIdentifier", <<>>, record, record.inputs, "",
                 None)
    ELSE
    LET inputs == remove_ignored_inputs(record.inputs, record.ignore_inputs)
        input_exists == is_not_empty(inputs)
        output_exists == is_not_empty(record.outputs)
        prediction_exists == pred_exists(input_exists, output_exists)
        feedback_exists == is_not_empty(record.feedbacks)
        fid == IF isinstance_str(record.feedback_id)
               THEN Ok(record.feedback_id)
               ELSE IF input_exists
               THEN compute_feedback_id(inputs, record.feedback_keys)
               ELSE Raise("MissingIdentifierSource")
        pred == log_prediction_attribute(inputs, record.outputs,
                                         record.feedback_keys,
                                         record.ignore_inputs, fid.val)
        fb == log_feedback_attribute(fid.val, record.feedbacks)
    IN  IF fid.exc # ""
        THEN Handled(fid.exc, <<>>, record, inputs, "", None)
        ELSE IF prediction_exists /\ feedback_exists
        THEN IF pred.exc # ""
             THEN Handled(pred.exc, pred.spans, record, pred.inputs, "both",
                          fid.val)
             ELSE Handled("", pred.spans \o fb, record, pred.inputs, "both",
                          fid.val)
        ELSE IF prediction_exists
        THEN Handled(pred.exc, pred.spans, record, pred.inputs, "prediction",
                     fid.val)
        ELSE IF feedback_exists
        THEN Handled("", fb, record, inputs, "feedback", fid.val)
        ELSE Handled("EmptyRecord", <<>>, record, inputs, "none", fid.val)


\* --------------------------------------------- the caller's Record objects
Keys == {"a", "b"}
Vals == {"", "1"}

\* dicts over Keys: every insertion order of every choice of keys
InputsDom ==
    {<<>>}
    \cup {<<<<k, v>>>> : k \in Keys, v \in Vals}
    \cup {<<<<k[1], v[1]>>, <<k[2], v[2]>>>> :
             k \in {q \in Keys \X Keys : q[1] # q[2]}, v \in Vals \X Vals}

OutputsDom == {<<>>, <<<<"y", "3">>>>}
FeedbacksDom == {<<>>, <<<<"status", "ok">>>>}
FeedbackKeysDom == {<<>>, <<"a">>, <<"a", "b">>, <<"b", "a">>}
IgnoreInputsDom == {<<>>, <<"a">>, <<"a", "b">>}
FeedbackIdDom == {None, Str(""), Str("abc123")}

\* Record(inputs=.., outputs=.., ..): the dataclass of common/types/Record.py
Record(inputs, outputs, feedback_keys, feedback_id, feedbacks, ignore_inputs) ==
    [cls |-> "Record", inputs |-> inputs, outputs |-> outputs,
     feedback_keys |-> feedback_keys, feedback_id |-> feedback_id,
     feedbacks |-> feedbacks, ignore_inputs |-> ignore_inputs]

\* an object with the attributes of a Record that is of another class
NotARecord ==
    [Record(<<>>, <<>>, <<>>, None, <<>>, <<>>) EXCEPT !.cls = "Other"]

Records ==
    {Record(i, o, fk, fid, fb, ig) :
        i \in InputsDom, o \in OutputsDom, fk \in FeedbackKeysDom,
        fid \in FeedbackIdDom, fb \in FeedbacksDom, ig \in IgnoreInputsDom}

\* the records that batches are built from: one that emits both events,
\* one that emits a feedback only, one whose ignored inputs are removed, and
\* two that fail, before and inside the branch that emits
BatchRecords ==
    {Record(<<<<"a", "1">>>>, <<<<"y", "3">>>>, <<>>, None,
            <<<<"status", "ok">>>>, <<>>),
     Record(<<>>, <<>>, <<>>, Str("abc123"), <<<<"status", "ok">>>>, <<>>),
     Record(<<<<"b", "1">>, <<"a", "1">>>>, <<<<"y", "3">>>>, <<>>, None,
            <<>>, <<"a">>),
     Record(<<>>, <<<<"y", "3">>>>, <<>>, None, <<>>, <<>>),
     Record(<<<<"a", "1">>>>, <<<<"y", "3">>>>, <<"b">>, Str(""),
            <<<<"status", "ok">>>>, <<>>)}

RecordLists ==
    {<<>>}
    \cup {<<r>> : r \in Records \cup {NotARecord}}
    \cup UNION {[1..n -> BatchRecords] : n \in 2..MaxRecords}

Rates == -1 .. Scale + 1
Draws == 0 .. Scale - 1
\* the value recorded when no draw was made; random.random() is below 1.0
NoDraw == Scale

\* ------------------------------------------------------------- the client
Called(op, index, sample_rate, draw) ==
    [op |-> op, index |-> index, sample_rate |-> sample_rate, draw |-> draw,
     records |-> records]

Result(exc, ret) == [exc |-> exc, ret |-> ret]

\* Spark(application): the provider is set up and is the active one
Init ==
    /\ provider = "active"
    /\ records \in RecordLists
    /\ spans = <<>>
    /\ call = [op |-> "none", index |-> 0, sample_rate |-> Scale,
               draw |-> NoDraw, records |-> <<>>]
    /\ result = Result("", None)

\* Spark.log_record(records[i], sample_rate)
log_record ==
    \E i \in DOMAIN records, sample_rate \in Rates :
        IF ~check_sample_rate(sample_rate)
        THEN /\ call' = Called("log_record", i, sample_rate, NoDraw)
             /\ result' = Result("InvalidSampleRate", None)
             /\ spans' = <<>>
             /\ UNCHANGED <<provider, records>>
        ELSE \E draw \in Draws :
             /\ call' = Called("log_record", i, sample_rate, draw)
             /\ IF draw > sample_rate
                THEN /\ result' = Result("", None)
                     /\ spans' = <<>>
                     /\ UNCHANGED <<provider, records>>
                ELSE LET h == process_record(records[i])
                     IN  /\ records' = [records EXCEPT ![i] = h.record]
                         /\ spans' = h.spans
                         /\ result' =
                                Result(h.exc,
                                       IF h.exc = ""
                                          /\ h.branch \in {"both", "prediction"}
                                       THEN h.feedback_id ELSE None)
                         /\ provider' =
                                IF h.exc = "" /\ h.branch = "feedback"
                                THEN "shutdown" ELSE provider

\* variant: a failing record is skipped and the loop goes on
RECURSIVE for_record_in_records_lenient(_, _)
for_record_in_records_lenient(i, acc) ==
    IF i > Len(acc.records) THEN acc
    ELSE LET h == process_record(acc.records[i])
             nxt == [exc |-> IF acc.exc # "" THEN acc.exc ELSE h.exc,
                     spans |-> acc.spans \o h.spans,
                     records |-> [acc.records EXCEPT ![i] = h.record]]
         IN  for_record_in_records_lenient(i + 1, nxt)

\* the for loop of log_records from record i on; acc is what the records
\* before i have come to
RECURSIVE for_record_in_records(_, _)
for_record_in_records(i, acc) ==
    IF i > Len(acc.records) THEN acc
    ELSE LET h == process_record(acc.records[i])
             nxt == [exc |-> h.exc, spans |-> acc.spans \o h.spans,
                     records |-> [acc.records EXCEPT ![i] = h.record]]
         IN  IF h.exc # "" THEN nxt ELSE for_record_in_records(i + 1, nxt)

\* Spark.log_records(records, sample_rate)
log_records ==
    \E sample_rate \in Rates :
        IF ~check_sample_rate(sample_rate)
        THEN /\ call' = Called("log_records", 0, sample_rate, NoDraw)
             /\ result' = Result("InvalidSampleRate", None)
             /\ spans' = <<>>
             /\ UNCHANGED <<provider, records>>
        ELSE \E draw \in Draws :
             /\ call' = Called("log_records", 0, sample_rate, draw)
             /\ UNCHANGED provider
             /\ IF draw > sample_rate
                THEN /\ result' = Result("", None)
                     /\ spans' = <<>>
                     /\ UNCHANGED records
                ELSE LET r == for_record_in_records(
                                  1, [exc |-> "", spans |-> <<>>,
                                      records |-> records])
                     IN  /\ records' = r.records
                         /\ spans' = r.spans
                         /\ result' = Result(r.exc, None)

Next == log_record \/ log_records

Spec == Init /\ [][Next]_vars


\* ------------------------------------------------- the last call, observed
IsLogRecord == call.op = "log_record"
IsLogRecords == call.op = "log_records"

\* the call got past check_sample_rate and the sampling gate
Admitted ==
    /\ call.op # "none"
    /\ call.sample_rate >= 0 /\ call.sample_rate <= Scale
    /\ call.draw # NoDraw /\ call.draw <= call.sample_rate

\* the record handed to log_record as it was before the call, and as it is
Arg == call.records[call.index]
Now == records[call.index]

AdmittedRecord == IsLogRecord /\ Admitted /\ Arg.cls = "Record"

\* the same, with a draw strictly below the rate: the call is kept whether
\* the gate drops a draw equal to the rate or keeps it
KeptRecord == AdmittedRecord /\ call.draw < call.sample_rate

Names(ss) == [i \in DOMAIN ss |-> ss[i].name]

KeySet(d) == {d[i][1] : i \in DOMAIN d}

\* the key/value content of inputs restricted to feedback_keys, or to all
\* keys when feedback_keys is empty
Covers(inputs, feedback_keys) == Range(feedback_keys) \subseteq KeySet(inputs)

Content(inputs, feedback_keys) ==
    {d \in Range(inputs) :
        feedback_keys = <<>> \/ d[1] \in Range(feedback_keys)}

KeyLists == {<<>>} \cup {<<k>> : k \in Keys} \cup {<<k, l>> : k, l \in Keys}

\* inputs with every field listed in ignore_inputs taken out
WithoutIgnored(inputs, ignore_inputs) ==
    SelectSeq(inputs, LAMBDA d : d[1] \notin Range(ignore_inputs))

\* the call derived the identifier it returned from the inputs
DerivedIdentifier ==
    /\ AdmittedRecord
    /\ Arg.feedback_id = None
    /\ result.exc = ""
    /\ result.ret # None

\* C1: records whose inputs, restricted to feedback_keys (all keys when
\* feedback_keys is empty), have the same key/value content get the same
\* identifier, whatever the insertion order of the inputs, the order of
\* feedback_keys and the inputs outside feedback_keys.
C1_SameContentSameIdentifier ==
    DerivedIdentifier =>
        \A inputs \in InputsDom, feedback_keys \in KeyLists :
            (/\ Covers(inputs, feedback_keys)
             /\ Content(inputs, feedback_keys)
                    = Content(Now.inputs, Now.feedback_keys))
            => compute_feedback_id(inputs, feedback_keys).val = result.ret

\* the identifier was derived from two inputs inserted in descending key
\* order, so that another insertion order has the same content
C1_Witness ==
    /\ DerivedIdentifier
    /\ Len(Now.inputs) = 2
    /\ Now.inputs[1][1] = "b"
    /\ Now.feedback_keys = <<>>

AllEmpty(r) == r.inputs = <<>> /\ r.outputs = <<>> /\ r.feedbacks = <<>>

\* C2 as stated: log_record with empty inputs, outputs and feedbacks always
\* fails with EmptyRecord, for every feedback_id, and emits no event.
C2_AlwaysEmptyRecord ==
    (AdmittedRecord /\ AllEmpty(Arg))
    => (result.exc = "EmptyRecord" /\ spans = <<>>)

\* C2 amended: a log_record call that passes the sampling gate with empty
\* inputs, outputs and feedbacks always fails and emits no event; the error
\* is EmptyRecord when feedback_id is a string and the identifier conflict
\* does not apply, MissingIdentifierSource when feedback_id is absent, and
\* ConflictingIdentifier when feedback_keys is non-empty and feedback_id is
\* a non-empty string.
C2_EmptyRecordFails ==
    (AdmittedRecord /\ AllEmpty(Arg))
    => /\ spans = <<>>
       /\ result.ret = None
       /\ result.exc =
            IF Arg.feedback_keys # <<>> /\ Arg.feedback_id.t = "str"
               /\ Arg.feedback_id.v # ""
            THEN "ConflictingIdentifier"
            ELSE IF Arg.feedback_id.t = "str" THEN "EmptyRecord"
            ELSE "MissingIdentifierSource"

\* an empty record with the empty string as its feedback_id was rejected as
\* an empty record
C2_Witness ==
    /\ AdmittedRecord /\ AllEmpty(Arg)
    /\ Arg.feedback_id = Str("")
    /\ result.exc = "EmptyRecord"

\* C3: a feedback event always carries a non-empty identifier: with a
\* feedback_id that is not a non-empty string and no inputs left after the
\* ignored ones are removed the call fails with MissingIdentifierSource and
\* emits nothing, and a non-empty feedback_id is on every emitted event.
C3_ResolvedIdentifier ==
    /\ \A i \in DOMAIN spans :
          spans[i].name = "feedback"
          => (spans[i].feedback_id.t = "str" /\ spans[i].feedback_id.v # "")
    /\ (/\ KeptRecord
        /\ ~(Arg.feedback_id.t = "str" /\ Arg.feedback_id.v # "")
        /\ remove_ignored_inputs(Arg.inputs, Arg.ignore_inputs) = <<>>)
       => (result.exc = "MissingIdentifierSource" /\ spans = <<>>)
    /\ (/\ KeptRecord
        /\ Arg.feedback_id.t = "str" /\ Arg.feedback_id.v # "")
       => \A i \in DOMAIN spans : spans[i].feedback_id = Arg.feedback_id

\* C4: a field listed in ignore_inputs is never in the serialized inputs of
\* the prediction event and takes no part in the derived identifier, whatever
\* value it holds.
C4_IgnoredInputsRemoved ==
    KeptRecord =>
        /\ \A i \in DOMAIN spans :
              spans[i].name = "prediction"
              => \E d \in InputsDom :
                    /\ json_dumps(d, FALSE) = spans[i].inputs
                    /\ KeySet(d) \cap Range(Arg.ignore_inputs) = {}
        /\ DerivedIdentifier
           => result.ret =
                compute_feedback_id(
                    WithoutIgnored(Arg.inputs, Arg.ignore_inputs),
                    Arg.feedback_keys).val

\* a record with nothing unusual in it: an identifier that is absent or
\* non-empty, and no input holding the empty string
Plain(r) ==
    /\ r.cls = "Record"
    /\ r.feedback_id # Str("")
    /\ \A i \in DOMAIN r.inputs : r.inputs[i][2] # ""

\* C5: log_record with sample_rate 0 emits nothing whatever the draw, with
\* sample_rate 1 and a valid record it emits, and a sample_rate outside
\* [0,1] fails with InvalidSampleRate before anything else happens.  Stated
\* for plain records.
C5_SamplingGate ==
    (IsLogRecord /\ Plain(Arg)) =>
        /\ call.sample_rate = 0 => spans = <<>>
        /\ (call.sample_rate = Scale /\ process_record(Arg).exc = "")
           => spans # <<>>
        /\ (call.sample_rate < 0 \/ call.sample_rate > Scale)
           => /\ result.exc = "InvalidSampleRate"
              /\ spans = <<>>
              /\ records = call.records
              /\ call.draw = NoDraw

\* C6: log_record with non-empty feedback_keys and a supplied feedback_id
\* fails with ConflictingIdentifier and emits nothing, whatever the supplied
\* value and the other fields are.
C6_ConflictingIdentifier ==
    (KeptRecord /\ Arg.feedback_keys # <<>> /\ Arg.feedback_id # None)
    => (result.exc = "ConflictingIdentifier" /\ spans = <<>>)

\* the record passes validation: no identifier conflict, an identifier that
\* is supplied or can be derived, and no feedback key that the inputs lack
PassesValidation ==
    /\ AdmittedRecord
    /\ ~(Arg.feedback_keys # <<>> /\ Arg.feedback_id.t = "str"
         /\ Arg.feedback_id.v # "")
    /\ (Arg.feedback_id.t = "str" \/ Now.inputs # <<>>)
    /\ Covers(Now.inputs, Arg.feedback_keys)

\* C7: for an admitted record that passes validation the events of
\* log_record are fixed by whether a prediction exists (inputs left after
\* the removal and outputs) and whether feedbacks exist: prediction then
\* feedback, prediction alone, feedback alone, or nothing and EmptyRecord.
C7_EventsByBranch ==
    PassesValidation =>
        LET prediction == Now.inputs # <<>> /\ Arg.outputs # <<>>
            feedback == Arg.feedbacks # <<>>
        IN  /\ (prediction /\ feedback)
               => (Names(spans) = <<"prediction", "feedback">>
                   /\ result.exc = "")
            /\ (prediction /\ ~feedback)
               => (Names(spans) = <<"prediction">> /\ result.exc = "")
            /\ (~prediction /\ feedback)
               => (Names(spans) = <<"feedback">> /\ result.exc = "")
            /\ (~prediction /\ ~feedback)
               => (spans = <<>> /\ result.exc = "EmptyRecord")

\* a feedback-only record with a supplied identifier and no inputs was
\* logged as a single feedback event
C7_Witness ==
    /\ PassesValidation
    /\ Arg.inputs = <<>> /\ Arg.feedback_id = Str("abc123")
    /\ Names(spans) = <<"feedback">>
    /\ spans[1].feedback_id = Str("abc123")

\* C8: when a prediction is emitted log_record returns the identifier and
\* every event of the call carries the returned value; when only a feedback
\* is emitted log_record returns nothing.
C8_ReturnedIdentifier ==
    (KeptRecord /\ result.exc = "" /\ spans # <<>>)
    => IF spans[1].name = "prediction"
       THEN /\ result.ret # None
            /\ \A i \in DOMAIN spans : spans[i].feedback_id = result.ret
       ELSE result.ret = None


\* what record i of the batch comes to when handled on its own
Solo(i) == process_record(call.records[i])

\* the first record of the batch that fails, or one past the last record
FirstFailure ==
    IF \E i \in DOMAIN call.records : Solo(i).exc # ""
    THEN CHOOSE i \in DOMAIN call.records :
            /\ Solo(i).exc # ""
            /\ \A j \in 1..(i - 1) : Solo(j).exc = ""
    ELSE Len(call.records) + 1

RECURSIVE SpansOfFirst(_)
SpansOfFirst(n) == IF n = 0 THEN <<>> ELSE SpansOfFirst(n - 1) \o Solo(n).spans

\* C9: log_records handles the records in order and stops at the first one
\* that fails: the call raises that record's error, the events emitted are
\* those of the records before it, in record order and prediction before
\* feedback, the failing record and the later ones emit nothing and are not
\* touched; the gate is drawn once, and a dropped call handles no record.
C9_FailFastInOrder ==
    (IsLogRecords /\ call.draw # NoDraw) =>
        IF call.draw > call.sample_rate
        THEN spans = <<>> /\ records = call.records /\ result.exc = ""
        ELSE /\ spans = SpansOfFirst(FirstFailure - 1)
             /\ \A i \in 1..(FirstFailure - 1) :
                   Names(Solo(i).spans) \in
                       {<<"prediction", "feedback">>, <<"prediction">>,
                        <<"feedback">>}
             /\ result.exc = IF FirstFailure <= Len(call.records)
                             THEN Solo(FirstFailure).exc ELSE ""
             /\ FirstFailure <= Len(call.records)
                => Solo(FirstFailure).spans = <<>>
             /\ \A i \in DOMAIN call.records :
                   i > FirstFailure => records[i] = call.records[i]

\* a batch whose second record failed after the first had emitted both its
\* events, the second being a record that a later call would have changed
C9_Witness ==
    /\ IsLogRecords /\ Admitted
    /\ Len(call.records) >= 2
    /\ FirstFailure = 2
    /\ result.exc = "MissingIdentifierSource"
    /\ Names(spans) = <<"prediction", "feedback">>

\* C10: the provider set up by the constructor is active after every call,
\* successful or failing, and every event is handed to an active provider.
\* Stated for the calls of log_record on plain records that every reading
\* of the gate keeps, and for every call of log_records.
C10_ProviderStaysActive ==
    (IsLogRecords \/ (KeptRecord /\ Plain(Arg))) =>
        /\ provider = "active"
        /\ \A i \in DOMAIN spans : spans[i].channel = "active"

====
